---- MODULE Spec2Model ----
(***************************************************************************)
(* pkg/dcimgui/ext.cpp: the two hand-written default initializers          *)
(*   ImFontConfig_ImFontConfig(cimgui::ImFontConfig* self)                 *)
(*   ImGuiStyle_ImGuiStyle(cimgui::ImGuiStyle* self)                       *)
(* Each checks, at build time, that the flat (cimgui::) and the native     *)
(* (::) declaration of its record agree in size and alignment, default-    *)
(* constructs a native temporary and assigns it through the reinterpreted  *)
(* pointer.                                                                *)
(*                                                                         *)
(* Memory is an array of bytes.  The declarations of the records live in   *)
(* imgui.h / dcimgui.h, outside this file: their layouts (size, alignment, *)
(* which offsets are padding) and the values the native constructor gives  *)
(* the fields are inputs, drawn in Init.  The padding bytes of the         *)
(* temporary are indeterminate, and the assignment `*p = defaults` is a    *)
(* class assignment, not a memcpy: whether it carries padding over is up   *)
(* to the compiler.  Both are nondeterministic choices here.               *)
(***************************************************************************)
EXTENDS Integers, FiniteSets, Sequences, TLC

VARIABLES
    phase,      \* "source" | "artifact" | "failed": the translation unit's build
    flat,       \* [Types -> [size, align]]: layout of cimgui::T (dcimgui.h)
    native,     \* [Types -> [size, align, pad]]: layout of ::T (imgui.h)
    libVersion, \* which release of the wrapped library is linked (fixes the defaults)
    mem,        \* [Addr -> Byte]: the caller's memory
    last,       \* the most recent initializer call: [type, self, n]
    snap,       \* mem right after the first of a run of successive equal calls
    outcome,    \* how the most recent call ended: "none" | "returned" | "trap"
    pc,         \* [Threads -> "idle" | "copy" | "returned"]
    ctype,      \* [Threads -> Types]: which initializer the thread runs
    cself,      \* [Threads -> Addr]: its argument self
    done,       \* [Threads -> SUBSET offsets]: bytes of *self already stored
    lastw,      \* [Addr -> Threads \cup {"none"}]: the last thread to store the byte
    mem0        \* mem when the concurrent calls were started

vars == <<phase, flat, native, libVersion, mem, last, snap, outcome,
          pc, ctype, cself, done, lastw, mem0>>

seqVars  == <<last, snap, outcome>>
concVars == <<pc, ctype, cself, done, lastw, mem0>>
buildVars == <<flat, native, libVersion>>

\* ---------------------------------------------------------------- bounds
MaxByte == 1
MemSize == 4

Byte == 0..MaxByte
Addr == 0..(MemSize - 1)
Types == {"ImFontConfig", "ImGuiStyle"}
Threads == {"t1", "t2"}

\* Layouts the headers may declare, in bytes: one field; two fields; one
\* field followed by a byte of padding.
NativeLayouts ==
    { [size |-> 1, align |-> 1, pad |-> {}],
      [size |-> 2, align |-> 1, pad |-> {}],
      [size |-> 2, align |-> 2, pad |-> {1}] }

FlatLayouts == { [size |-> l.size, align |-> l.align] : l \in NativeLayouts }

ZeroMem == [a \in Addr |-> 0]
\* Memory the caller pre-filled with a sentinel byte.
SentinelMem == [a \in Addr |-> MaxByte]
NoCall == [type |-> "none", self |-> 0, n |-> 0]

\* ------------------------------------------------------- layout helpers
Offsets(T) == 0..(native[T].size - 1)
Fields(T) == Offsets(T) \ native[T].pad

\* The block the caller allocated for a cimgui::T at self.
Extent(T, self) == self..(self + flat[T].size - 1)

\* Pointers a caller may pass: a block of sizeof(cimgui::T) bytes inside
\* memory, aligned for cimgui::T.
Targets(T) ==
    { s \in Addr : s % flat[T].align = 0 /\ s + flat[T].size <= MemSize }

\* ------------------------------------------------------------ the build
\* static_assert(sizeof(cimgui::T) == sizeof(::T)) and
\* static_assert(alignof(cimgui::T) == alignof(::T)).
StaticAssert_SizeOnly(T) == flat[T].size = native[T].size

StaticAssert_AlignOnly(T) == flat[T].align = native[T].align

StaticAssert(T) ==
    /\ flat[T].size = native[T].size
    /\ flat[T].align = native[T].align

Build ==
    /\ phase = "source"
    /\ \A T \in Types : StaticAssert(T)
    /\ phase' = "artifact"
    /\ UNCHANGED <<buildVars, mem, seqVars, concVars>>

BuildFail ==
    /\ phase = "source"
    /\ \E T \in Types : ~StaticAssert(T)
    /\ phase' = "failed"
    /\ UNCHANGED <<buildVars, mem, seqVars, concVars>>

\* ------------------------------------------- native default construction
TypeIndex(T) == IF T = "ImFontConfig" THEN 0 ELSE 1

\* The value ::T's constructor gives the field at offset off.  The
\* constructor is the wrapped library's, not this file's: all that is taken
\* from it is that the value is a fixed function of the type, the offset and
\* the linked release.  The formula stands for that function and makes the
\* values differ across all three.
NativeDefault(T, off) == (libVersion + TypeIndex(T) + off) % (MaxByte + 1)

\* `::T defaults;`: fields as the constructor sets them, padding
\* indeterminate (junk).
DefaultConstruct_Uninit(T, junk) == [off \in Offsets(T) |-> junk]

DefaultConstruct(T, junk) ==
    [off \in Offsets(T) |->
        IF off \in native[T].pad THEN junk ELSE NativeDefault(T, off)]

\* --------------------------------------------------- the assignment
\* One byte of `*reinterpret_cast< ::T*>(self) = defaults`.  A padding byte
\* is stored only if the compiler copies the whole object (copyPad).
StoreByte_Shifted(m, self, T, tmp, off, copyPad) ==
    IF off \in native[T].pad /\ ~copyPad
    THEN m
    ELSE [a \in Addr |-> IF a = self + off + 1 THEN tmp[off] ELSE m[a]]

StoreByte_SkipLast(m, self, T, tmp, off, copyPad) ==
    IF (off \in native[T].pad /\ ~copyPad) \/ (off > 0 /\ off = native[T].size - 1)
    THEN m
    ELSE [a \in Addr |-> IF a = self + off THEN tmp[off] ELSE m[a]]

StoreByte(m, self, T, tmp, off, copyPad) ==
    IF off \in native[T].pad /\ ~copyPad
    THEN m
    ELSE [a \in Addr |-> IF a = self + off THEN tmp[off] ELSE m[a]]

RECURSIVE StoreAll(_, _, _, _, _, _)
StoreAll(m, self, T, tmp, offs, copyPad) ==
    IF offs = {} THEN m
    ELSE LET off == CHOOSE o \in offs : TRUE
         IN  StoreAll(StoreByte(m, self, T, tmp, off, copyPad),
                      self, T, tmp, offs \ {off}, copyPad)

\* The whole assignment: sizeof(::T) bytes from self.
StructAssign(m, self, T, tmp, copyPad) ==
    StoreAll(m, self, T, tmp, Offsets(T), copyPad)

\* Every memory one call of T's initializer on self can leave behind.
CallResults(m, T, self) ==
    { StructAssign(m, self, T, DefaultConstruct(T, junk), copyPad) :
        junk \in Byte, copyPad \in BOOLEAN }

\* ------------------------------------------------ the calls, one at a time
\* The body shared by the two initializers (lines 19-20 and 27-28).  A
\* self that is not aligned for ::T makes the store undefined: it may go
\* through or trap.
Initialize(T, self) ==
    /\ phase = "artifact"
    /\ outcome # "trap"
    /\ self \in Targets(T)
    /\ IF self % native[T].align = 0
       THEN /\ mem' \in CallResults(mem, T, self)
            /\ outcome' = "returned"
       ELSE \/ /\ mem' \in CallResults(mem, T, self)
               /\ outcome' = "returned"
            \/ /\ mem' = mem
               /\ outcome' = "trap"
    /\ LET again == last.type = T /\ last.self = self
       IN  /\ last' = [type |-> T, self |-> self, n |-> IF again THEN 2 ELSE 1]
           /\ snap' = IF again THEN snap ELSE mem'
    /\ UNCHANGED <<phase, buildVars, concVars>>

ImFontConfig_ImFontConfig(self) == Initialize("ImFontConfig", self)

ImGuiStyle_ImGuiStyle(self) == Initialize("ImGuiStyle", self)

\* The caller owns the memory and may put anything in it between calls.
CallerStore(a, b) ==
    /\ phase = "artifact"
    /\ outcome # "trap"
    /\ mem[a] # b
    /\ mem' = [mem EXCEPT ![a] = b]
    /\ last' = NoCall
    /\ snap' = ZeroMem
    /\ outcome' = "none"
    /\ UNCHANGED <<phase, buildVars, concVars>>

Init ==
    /\ phase = "source"
    /\ native \in [Types -> NativeLayouts]
    /\ flat \in [Types -> FlatLayouts]
    /\ libVersion \in Byte
    /\ mem = ZeroMem
    /\ last = NoCall
    /\ snap = ZeroMem
    /\ outcome = "none"
    /\ pc = [t \in Threads |-> "idle"]
    /\ ctype = [t \in Threads |-> "ImFontConfig"]
    /\ cself = [t \in Threads |-> 0]
    /\ done = [t \in Threads |-> {}]
    /\ lastw = [a \in Addr |-> "none"]
    /\ mem0 = ZeroMem

Next ==
    \/ Build
    \/ BuildFail
    \/ \E a \in Addr, b \in Byte : CallerStore(a, b)
    \/ \E self \in Addr : ImFontConfig_ImFontConfig(self)
    \/ \E self \in Addr : ImGuiStyle_ImGuiStyle(self)

Spec == Init /\ [][Next]_vars

\* --------------------------------------- the calls, on concurrent threads
\* A thread enters an initializer; `defaults` is constructed on its stack.
Enter(t, T, self) ==
    /\ phase = "artifact"
    /\ pc[t] = "idle"
    /\ self \in Targets(T)
    /\ pc' = [pc EXCEPT ![t] = "copy"]
    /\ ctype' = [ctype EXCEPT ![t] = T]
    /\ cself' = [cself EXCEPT ![t] = self]
    /\ UNCHANGED <<phase, buildVars, mem, seqVars, done, lastw, mem0>>

\* Offsets of *self the thread has still to store.
Pending_Retry(t) == Offsets(ctype[t])

Pending(t) == Offsets(ctype[t]) \ done[t]

\* Where the thread stores: through its own parameter self.
Dest_Shared(t) ==
    IF \E u \in Threads \ {t} : pc[u] # "idle"
    THEN cself[CHOOSE u \in Threads \ {t} : pc[u] # "idle"]
    ELSE cself[t]

Dest(t) == cself[t]

\* The assignment, one byte at a time, in any order.
CopyByte(t, off) ==
    /\ pc[t] = "copy"
    /\ off \in Pending(t)
    /\ \E junk \in Byte, copyPad \in BOOLEAN :
        /\ mem' = StoreByte(mem, Dest(t), ctype[t],
                            DefaultConstruct(ctype[t], junk), off, copyPad)
        /\ lastw' = IF off \in native[ctype[t]].pad /\ ~copyPad
                    THEN lastw
                    ELSE [lastw EXCEPT ![Dest(t) + off] = t]
    /\ done' = [done EXCEPT ![t] = @ \cup {off}]
    /\ UNCHANGED <<phase, buildVars, seqVars, pc, ctype, cself, mem0>>

\* The closing brace: `defaults` goes out of scope, the call returns.
Return(t) ==
    /\ pc[t] = "copy"
    /\ Pending(t) = {}
    /\ pc' = [pc EXCEPT ![t] = "returned"]
    /\ done' = [done EXCEPT ![t] = {}]
    /\ UNCHANGED <<phase, buildVars, mem, seqVars, ctype, cself, lastw, mem0>>

ThreadStep(t) == (\E off \in 0..MemSize : CopyByte(t, off)) \/ Return(t)

InitConc ==
    /\ phase = "artifact"
    /\ native \in [Types -> NativeLayouts]
    /\ flat \in [Types -> FlatLayouts]
    /\ \A T \in Types : StaticAssert(T)
    /\ libVersion \in Byte
    /\ mem = SentinelMem
    /\ mem0 = mem
    /\ last = NoCall
    /\ snap = ZeroMem
    /\ outcome = "none"
    /\ pc = [t \in Threads |-> "idle"]
    /\ ctype = [t \in Threads |-> "ImFontConfig"]
    /\ cself = [t \in Threads |-> 0]
    /\ done = [t \in Threads |-> {}]
    /\ lastw = [a \in Addr |-> "none"]

NextConc ==
    \/ \E t \in Threads, T \in Types, self \in Addr : Enter(t, T, self)
    \/ \E t \in Threads, off \in 0..MemSize : CopyByte(t, off)
    \/ \E t \in Threads : Return(t)

\* Nothing in the body blocks: a thread inside a call keeps being scheduled.
SpecConc ==
    /\ InitConc
    /\ [][NextConc]_vars
    /\ \A t \in Threads : WF_vars(ThreadStep(t))

\* ================================================================ claims
Returned == last.type # "none" /\ outcome = "returned"

\* C1: after a call of either initializer returns, every field of the
\* target, read as the native record, holds the value native default
\* construction gives it, whatever the target held before.
C1_FieldsAreDefaults ==
    Returned =>
        \A off \in Fields(last.type) :
            mem[last.self + off] = NativeDefault(last.type, off)

C1_Witness ==
    /\ Returned
    /\ Cardinality(Fields(last.type)) = 2
    /\ \E off \in Fields(last.type) : NativeDefault(last.type, off) # 0
    /\ \E a \in Addr \ Extent(last.type, last.self) : mem[a] # 0

\* C2: a call changes no byte outside the sizeof(T) bytes the caller
\* allocated at self; the bytes right before and right after stay as they were.
C2_BoundedWrite ==
    [][last'.type # "none" =>
          \A a \in Addr \ Extent(last'.type, last'.self) : mem'[a] = mem[a]]_vars

C2_Witness ==
    /\ Returned
    /\ last.self >= 1
    /\ last.self + flat[last.type].size < MemSize
    /\ mem[last.self - 1] # 0
    /\ mem[last.self + flat[last.type].size] # 0

\* C3 as stated: a second call in succession leaves the same bytes in the
\* target as the first call did.
C3_SameBytes ==
    (Returned /\ last.n = 2) =>
        \A a \in Extent(last.type, last.self) : mem[a] = snap[a]

\* C3 amended: a second call in succession leaves every field of the target
\* (every byte that is not padding of the native record), and every byte
\* outside the target, as the first call left it.
C3_SameFields ==
    (Returned /\ last.n = 2) =>
        \A a \in Addr :
            (a - last.self) \notin native[last.type].pad => mem[a] = snap[a]

C3_Witness ==
    /\ Returned
    /\ last.n = 2
    /\ Cardinality(Fields(last.type)) = 2
    /\ \E off \in Fields(last.type) : NativeDefault(last.type, off) # 0

\* Memories that differ from mem only in what the block at self holds.
PriorFills(T, self) ==
    { [a \in Addr |-> IF a \in Extent(T, self) THEN f[a] ELSE mem[a]] :
        f \in [Extent(T, self) -> Byte] }

\* C4 as stated: after ImGuiStyle_ImGuiStyle returns, the whole block holds
\* what a run started from any other prior content of the block ends with.
C4_SameBlock ==
    (Returned /\ last.type = "ImGuiStyle") =>
        \A m2 \in PriorFills("ImGuiStyle", last.self) :
            \A r \in CallResults(m2, "ImGuiStyle", last.self) :
                \A a \in Extent("ImGuiStyle", last.self) : r[a] = mem[a]

\* C4 amended: after ImGuiStyle_ImGuiStyle returns, every field holds the
\* library default, so a run started from any other prior content of the
\* block ends with the same fields; padding bytes are not determined.
C4_SameFields ==
    (Returned /\ last.type = "ImGuiStyle") =>
        \A m2 \in PriorFills("ImGuiStyle", last.self) :
            \A r \in CallResults(m2, "ImGuiStyle", last.self) :
                \A off \in Fields("ImGuiStyle") :
                    /\ r[last.self + off] = mem[last.self + off]
                    /\ mem[last.self + off] = NativeDefault("ImGuiStyle", off)

C4_Witness ==
    /\ Returned
    /\ last.type = "ImGuiStyle"
    /\ native["ImGuiStyle"].pad # {}
    /\ \E off \in Fields("ImGuiStyle") :
           mem[last.self + off] # MaxByte

\* C6: whenever an initializer call can execute, both representations of
\* both records have the same size and the same alignment.
C6_LayoutIdentity ==
    (\E T \in Types, self \in Addr : ENABLED Initialize(T, self)) =>
        \A T \in Types :
            /\ flat[T].size = native[T].size
            /\ flat[T].align = native[T].align

C6_Witness ==
    /\ phase = "artifact"
    /\ last.type # "none"
    /\ native["ImFontConfig"] # native["ImGuiStyle"]

LayoutMismatch ==
    \E T \in Types :
        flat[T].size # native[T].size \/ flat[T].align # native[T].align

\* C7: a layout mismatch fails the build and no call is ever made; the
\* build fails for no other reason; a call that executes has no error
\* outcome.
C7_BuildTimeOnly ==
    /\ outcome \in {"none", "returned"}
    /\ LayoutMismatch =>
           /\ phase # "artifact"
           /\ last = NoCall
           /\ mem = ZeroMem
    /\ phase = "failed" =>
           /\ LayoutMismatch
           /\ \A T \in Types, self \in Addr : ~ENABLED Initialize(T, self)

C7_Witness ==
    /\ phase = "failed"
    /\ flat["ImGuiStyle"].size = native["ImGuiStyle"].size
    /\ flat["ImGuiStyle"].align # native["ImGuiStyle"].align

\* ---- concurrent calls
AllReturned == \A t \in Threads : pc[t] = "returned"

Disjoint ==
    \A t, u \in Threads :
        t # u => Extent(ctype[t], cself[t]) \cap Extent(ctype[u], cself[u]) = {}

\* What running t's call and then u's call, each as a whole, can leave.
OneAfterAnother(t, u) ==
    UNION { CallResults(r, ctype[u], cself[u]) :
              r \in CallResults(mem0, ctype[t], cself[t]) }

\* C8: concurrent calls on targets that do not overlap end, under every
\* interleaving of their stores, with a memory that running the calls one
\* after another, in either order, also ends with.
C8_Serializable ==
    (AllReturned /\ Disjoint) =>
        \A t, u \in Threads : t # u => mem \in OneAfterAnother(t, u)

C8_Witness ==
    /\ AllReturned
    /\ Disjoint
    /\ ctype["t1"] # ctype["t2"]
    /\ \E a \in Addr : mem[a] # mem0[a]

\* C9: every call that is entered returns, having stored each byte once,
\* and leaves nothing of its own behind.
C9_Terminates ==
    \A t \in Threads :
        [](pc[t] = "copy" => <>(pc[t] = "returned" /\ done[t] = {}))

C9_Witness ==
    /\ \E t \in Threads : pc[t] = "returned" /\ done[t] = {}
    /\ \E t \in Threads : pc[t] = "copy" /\ done[t] # {}

====
